---------------------------- MODULE Spec2Model ----------------------------
(***************************************************************************)
(* cargo-asm: artifact discovery (src/build.rs) and function resolution    *)
(* (src/asm/mod.rs).                                                       *)
(*                                                                         *)
(* Strings are sequences of character codes, so that sorting, splitting at *)
(* ':' and the edit distance are computed on characters as the code does.  *)
(***************************************************************************)
EXTENDS Integers, Sequences, FiniteSets, TLC

(***************************************************************************)
(* Strings.                                                                *)
(***************************************************************************)
Colon == 58      \* ':'
Dot == 46        \* '.'

s_ax == <<97, 58, 58, 120>>                            \* "a::x"
s_by == <<98, 58, 58, 121>>                            \* "b::y"
s_cz == <<99, 58, 58, 122>>                            \* "c::z"
s_pkg_z == <<112, 107, 103, 58, 58, 122>>              \* "pkg::z"
s_pkg_zz == <<112, 107, 103, 58, 58, 122, 122>>        \* "pkg::zz"
s_pkg_zzz == <<112, 107, 103, 58, 58, 122, 122, 122>>  \* "pkg::zzz"
s_other_q == <<111, 116, 104, 101, 114, 58, 58, 113>>  \* "other::q"
s_foo == <<102, 111, 111>>                             \* "foo"
s_m_foo1 == <<109, 58, 58, 102, 111, 111, 49>>         \* "m::foo1"
s_n_bar == <<110, 58, 98, 97, 114>>                    \* "n:bar"
s_completely_different ==                              \* "completely_different"
    <<99, 111, 109, 112, 108, 101, 116, 101, 108, 121, 95,
      100, 105, 102, 102, 101, 114, 101, 110, 116>>

Min2(a, b) == IF a <= b THEN a ELSE b

Range(seq) == {seq[k] : k \in 1..Len(seq)}

\* Ord for str / String: byte-wise lexicographic, a proper prefix first.
RECURSIVE StrLess(_, _)
StrLess(a, b) ==
    IF b = <<>> THEN FALSE
    ELSE IF a = <<>> THEN TRUE
    ELSE IF Head(a) # Head(b) THEN Head(a) < Head(b)
    ELSE StrLess(Tail(a), Tail(b))

\* Vec<String>::sort(): ascending, stable (insertion of each element after
\* the elements not greater than it).
RECURSIVE InsertSorted(_, _)
InsertSorted(sorted, x) ==
    IF sorted = <<>> THEN <<x>>
    ELSE IF StrLess(x, Head(sorted)) THEN <<x>> \o sorted
    ELSE <<Head(sorted)>> \o InsertSorted(Tail(sorted), x)

\* sort() left out.
sort_omitted(v) == v

RECURSIVE sort(_)
sort(v) ==
    IF v = <<>> THEN <<>>
    ELSE InsertSorted(sort(SubSeq(v, 1, Len(v) - 1)), v[Len(v)])

\* dedup() left out.
dedup_omitted(v) == v

\* Vec::dedup(): removes consecutive repeated elements, keeping the first.
RECURSIVE dedup(_)
dedup(v) ==
    IF Len(v) <= 1 THEN v
    ELSE IF v[1] = v[2] THEN dedup(Tail(v))
    ELSE <<v[1]>> \o dedup(Tail(v))

\* split(':').next() in place of next_back(): the text before the first ':'.
split_next(s) ==
    LET at == {k \in 1..Len(s) : s[k] = Colon}
    IN  IF at = {} THEN s
        ELSE SubSeq(s, 1, (CHOOSE k \in at : \A m \in at : k <= m) - 1)

\* str::split(':').next_back().unwrap(): the text after the last ':', the
\* whole string when it holds no ':'.
split_next_back(s) ==
    LET at == {k \in 1..Len(s) : s[k] = Colon}
    IN  IF at = {} THEN s
        ELSE SubSeq(s, (CHOOSE k \in at : \A m \in at : m <= k) + 1, Len(s))

\* edit_distance::edit_distance (Levenshtein distance over chars), computed
\* row by row as the crate does: cur is the previous row, acc the row being
\* filled in for character ca of the longer string.
RECURSIVE edit_row(_, _, _, _)
edit_row(cur, ca, b, acc) ==
    IF Len(acc) = Len(cur) THEN acc
    ELSE LET j == Len(acc)
             deletion == cur[j + 1] + 1
             insertion == acc[j] + 1
             substitution == cur[j] + (IF ca = b[j] THEN 0 ELSE 1)
         IN  edit_row(cur, ca, b,
                      Append(acc, Min2(deletion, Min2(insertion, substitution))))

RECURSIVE edit_rows(_, _, _, _)
edit_rows(cur, a, b, i) ==
    IF i > Len(a) THEN cur
    ELSE edit_rows(edit_row(cur, a[i], b, <<i>>), a, b, i + 1)

edit_distance(x, y) ==
    LET a == IF Len(x) < Len(y) THEN y ELSE x
        b == IF Len(x) < Len(y) THEN x ELSE y
    IN  IF Len(a) = 0 THEN Len(b)
        ELSE IF Len(b) = 0 THEN Len(a)
        ELSE edit_rows([k \in 1..(Len(b) + 1) |-> k - 1], a, b, 1)[Len(b) + 1]

(***************************************************************************)
(* Function resolution: asm::parse_files and asm::run.                     *)
(***************************************************************************)
MaxFiles == 3     \* longest file list handed to run
MaxVanish == 1    \* files a concurrent rebuild removes during one scan
PermFiles == 2    \* longest file list scanned in two orders

SuggestThreshold == 4

VARIABLES
    files,        \* the ordered file list passed to run / parse_files
    artifact,     \* what each file holds, as the per-file parser reports it
    path,         \* OPTS.path(): the requested function path, if any
    debug_mode,   \* OPTS.debug_mode()
    exists,       \* the files currently on disk
    scan,         \* the activation of parse_files over files
    files2,       \* a second order of the same files
    scan2,        \* the activation of parse_files over files2
    proc,         \* the process: running, returned, exited1, panicked
    out,          \* what run has written
    tree,         \* the entries on disk under the target directory
    ext,          \* the extension of the emitted files: "s" or "ll"
    example,      \* OPTS.example()
    windows,      \* cfg!(target_os = "windows")
    bpc,          \* where build::project is: deps, examples, finish, done, panicked
    walk,         \* the WalkDir iterator: per open directory, the entries left
    pass_files,   \* scan_directory's output_files
    passes,       \* the scan_directory calls that returned, with what they returned
    output_files  \* project's output_files

buildVars == <<tree, ext, example, windows, bpc, walk, pass_files, passes, output_files>>

\* build::project is not under way.
BuildIdle ==
    /\ tree = {}
    /\ ext = <<>>
    /\ example = [some |-> FALSE, v |-> <<>>]
    /\ windows = FALSE
    /\ bpc = "idle"
    /\ walk = <<>>
    /\ pass_files = <<>>
    /\ passes = <<>>
    /\ output_files = <<>>

\* Option and io::Result
None == [some |-> FALSE, v |-> <<>>]
Some(s) == [some |-> TRUE, v |-> s]
Err == [ok |-> FALSE, v |-> <<>>]
Ok(x) == [ok |-> TRUE, v |-> x]

\* The requested paths and the per-file function listings the model draws.
Queries == {None, Some(s_pkg_zz), Some(s_foo)}

Listings ==
    { <<s_ax, s_by>>,
      <<s_ax, s_cz>>,
      <<s_pkg_zzz, s_other_q, s_pkg_z>>,
      <<s_n_bar, s_m_foo1, s_n_bar>>,
      <<s_completely_different>> }

\* A file either holds the requested function (only when one is requested)
\* or lists functions none of which is the requested path.
Artifacts(q) ==
    {[found |-> FALSE, table |-> l] : l \in {c \in Listings : q.v \notin Range(c)}}
    \cup (IF q.some THEN {[found |-> TRUE, table |-> <<>>]} ELSE {})

\* ParseResult
NoResult == [kind |-> "None", function |-> 0, files |-> 0, table |-> <<>>]
Found(function, file_table) ==
    [kind |-> "Found", function |-> function, files |-> file_table, table |-> <<>>]
NotFound(table) ==
    [kind |-> "NotFound", function |-> 0, files |-> 0, table |-> table]

\* parse::function(f, target): the per-file parser.  The function
\* representation and file table it returns are those of file f.
parse_function(f) ==
    IF artifact[f].found THEN Found(f, f) ELSE NotFound(artifact[f].table)

\* The activation record of parse_files when it is entered.
\* parsed counts the calls of the per-file parser on each file.
Enter(debug, fs) ==
    [pc |-> IF debug THEN "dump" ELSE "scan",
     i |-> 1,
     function_table |-> <<>>,
     parsed |-> [f \in Range(fs) |-> 0],
     result |-> NoResult]

\* No second scan.
Idle == [Enter(FALSE, <<>>) EXCEPT !.pc = "idle"]

\* One iteration of the debug-mode dump loop: File::open(f).unwrap().
DumpIter(fr, fs, ex) ==
    IF fr.i > Len(fs) THEN [fr EXCEPT !.pc = "scan", !.i = 1]
    ELSE IF fs[fr.i] \notin ex THEN [fr EXCEPT !.pc = "panicked"]
    ELSE [fr EXCEPT !.i = @ + 1]

\* LoopIter without the early return: a match is kept and the scan goes on.
LoopIter_keeps_scanning(fr, fs, ex) ==
    IF fr.i > Len(fs)
    THEN [fr EXCEPT !.pc = "returned",
                    !.function_table = dedup(sort(@)),
                    !.result = IF fr.result.kind = "Found" THEN fr.result
                               ELSE NotFound(dedup(sort(fr.function_table)))]
    ELSE LET f == fs[fr.i] IN
         IF f \notin ex THEN [fr EXCEPT !.pc = "panicked"]
         ELSE LET r == parse_function(f)
                  counted == [fr EXCEPT !.parsed[f] = @ + 1, !.i = @ + 1]
              IN  IF r.kind = "Found"
                  THEN [counted EXCEPT !.result = r]
                  ELSE [counted EXCEPT !.function_table = @ \o r.table]

\* LoopIter with a missing file skipped instead of asserted on.
LoopIter_skips_missing(fr, fs, ex) ==
    IF fr.i > Len(fs)
    THEN [fr EXCEPT !.pc = "returned",
                    !.function_table = dedup(sort(@)),
                    !.result = NotFound(dedup(sort(fr.function_table)))]
    ELSE LET f == fs[fr.i] IN
         IF f \notin ex THEN [fr EXCEPT !.i = @ + 1]
         ELSE LET r == parse_function(f)
                  counted == [fr EXCEPT !.parsed[f] = @ + 1]
              IN  IF r.kind = "Found"
                  THEN [counted EXCEPT !.pc = "returned", !.result = r]
                  ELSE [counted EXCEPT !.function_table = @ \o r.table,
                                       !.i = @ + 1]

\* LoopIter with the existence of every listed file asserted up front.
LoopIter_checks_all(fr, fs, ex) ==
    IF fr.i > Len(fs)
    THEN [fr EXCEPT !.pc = "returned",
                    !.function_table = dedup(sort(@)),
                    !.result = NotFound(dedup(sort(fr.function_table)))]
    ELSE LET f == fs[fr.i] IN
         IF ~(Range(fs) \subseteq ex) THEN [fr EXCEPT !.pc = "panicked"]
         ELSE LET r == parse_function(f)
                  counted == [fr EXCEPT !.parsed[f] = @ + 1]
              IN  IF r.kind = "Found"
                  THEN [counted EXCEPT !.pc = "returned", !.result = r]
                  ELSE [counted EXCEPT !.function_table = @ \o r.table,
                                       !.i = @ + 1]

\* One iteration of the scan loop, or the code after it once the list is
\* exhausted.
LoopIter(fr, fs, ex) ==
    IF fr.i > Len(fs)
    THEN [fr EXCEPT !.pc = "returned",
                    !.function_table = dedup(sort(@)),
                    !.result = NotFound(dedup(sort(fr.function_table)))]
    ELSE LET f == fs[fr.i] IN
         IF f \notin ex THEN [fr EXCEPT !.pc = "panicked"]
         ELSE LET r == parse_function(f)
                  counted == [fr EXCEPT !.parsed[f] = @ + 1]
              IN  IF r.kind = "Found"
                  THEN [counted EXCEPT !.pc = "returned", !.result = r]
                  ELSE [counted EXCEPT !.function_table = @ \o r.table,
                                       !.i = @ + 1]

resolveVars == <<files, artifact, path, debug_mode, exists, scan, files2, scan2, proc, out>>

vars == <<resolveVars, buildVars>>

Running(fr) == fr.pc \in {"dump", "scan"}

Died(fr) == IF fr.pc = "panicked" THEN "panicked" ELSE proc

\* parse_files, debug mode: dump the next file.
DebugDump ==
    /\ proc = "running"
    /\ scan.pc = "dump"
    /\ scan' = DumpIter(scan, files, exists)
    /\ proc' = Died(scan')
    /\ UNCHANGED <<files, artifact, path, debug_mode, exists, files2, scan2, out, buildVars>>

\* parse_files: check, parse and account for the next file, or finish.
ScanLoop ==
    /\ proc = "running"
    /\ scan.pc = "scan"
    /\ scan' = LoopIter(scan, files, exists)
    /\ proc' = Died(scan')
    /\ UNCHANGED <<files, artifact, path, debug_mode, exists, files2, scan2, out, buildVars>>

\* A concurrent rebuild removes a file while the scan is under way.  Only
\* the removal of a file parse_files has yet to look at is followed: a file
\* already parsed is not looked at again.
Vanish ==
    /\ proc = "running"
    /\ Running(scan)
    /\ Len(files) - Cardinality(exists) < MaxVanish
    /\ \E k \in (IF scan.pc = "scan" THEN scan.i ELSE 1)..Len(files) :
        /\ files[k] \in exists
        /\ exists' = exists \ {files[k]}
    /\ UNCHANGED <<files, artifact, path, debug_mode, scan, files2, scan2, proc, out, buildVars>>

\* What run writes: one record per println! line or per part of the
\* diagnostic message handed to display::write_error.
Line(kind, text) == [kind |-> kind, text |-> text]

\* table.sort_by(|a, b| distance(a).cmp(&distance(b))): a stable sort by the
\* edit distance of the trailing components.
distance(f, last_path) == edit_distance(split_next_back(f), last_path)

\* An unstable sort: an element goes before the elements at its distance.
RECURSIVE InsertByDistance_unstable(_, _, _)
InsertByDistance_unstable(sorted, x, last_path) ==
    IF sorted = <<>> THEN <<x>>
    ELSE IF distance(x, last_path) <= distance(Head(sorted), last_path)
         THEN <<x>> \o sorted
    ELSE <<Head(sorted)>> \o InsertByDistance_unstable(Tail(sorted), x, last_path)

RECURSIVE InsertByDistance(_, _, _)
InsertByDistance(sorted, x, last_path) ==
    IF sorted = <<>> THEN <<x>>
    ELSE IF distance(x, last_path) < distance(Head(sorted), last_path)
         THEN <<x>> \o sorted
    ELSE <<Head(sorted)>> \o InsertByDistance(Tail(sorted), x, last_path)

RECURSIVE sort_by_distance(_, _)
sort_by_distance(table, last_path) ==
    IF table = <<>> THEN <<>>
    ELSE InsertByDistance(sort_by_distance(SubSeq(table, 1, Len(table) - 1), last_path),
                          table[Len(table)], last_path)

\* .take_while(|f| distance(f) <= 4)
RECURSIVE take_while(_, _)
take_while(table, last_path) ==
    IF table = <<>> THEN <<>>
    ELSE IF distance(Head(table), last_path) <= SuggestThreshold
         THEN <<Head(table)>> \o take_while(Tail(table), last_path)
    ELSE <<>>

\* Diagnostic with the header pushed whether or not a suggestion follows.
Diagnostic_header_always(table, p) ==
    LET last_path == split_next_back(p)
        ranked == sort_by_distance(table, last_path)
        taken == take_while(ranked, last_path)
    IN  <<Line("could not find function at path", p),
          Line("Is it one of the following functions?", <<>>)>>
        \o [k \in 1..Len(taken) |-> Line("suggestion", taken[k])]
        \o <<Line("Tips", <<>>)>>

\* The message of the Some(path) arm: the path, then the header before the
\* first suggestion (i == 0) and the suggestions, then the tips.
Diagnostic(table, p) ==
    LET last_path == split_next_back(p)
        ranked == sort_by_distance(table, last_path)
        taken == take_while(ranked, last_path)
    IN  <<Line("could not find function at path", p)>>
        \o (IF taken = <<>> THEN <<>>
            ELSE <<Line("Is it one of the following functions?", <<>>)>>)
        \o [k \in 1..Len(taken) |-> Line("suggestion", taken[k])]
        \o <<Line("Tips", <<>>)>>

\* run, Found arm: the function is handed to rust::parse and the display.
RunFound ==
    /\ proc = "running"
    /\ scan.pc = "returned"
    /\ scan.result.kind = "Found"
    /\ out' = <<Line("display", <<scan.result.function>>)>>
    /\ proc' = "returned"
    /\ UNCHANGED <<files, artifact, path, debug_mode, exists, scan, files2, scan2, buildVars>>

\* run, NotFound arm with no path: print every function of the table.
RunList ==
    /\ proc = "running"
    /\ scan.pc = "returned"
    /\ scan.result.kind = "NotFound"
    /\ ~path.some
    /\ out' = [k \in 1..Len(scan.result.table) |-> Line("println", scan.result.table[k])]
    /\ proc' = "returned"
    /\ UNCHANGED <<files, artifact, path, debug_mode, exists, scan, files2, scan2, buildVars>>

\* run, NotFound arm with a path: write the diagnostic and exit(1).
RunDiagnose ==
    /\ proc = "running"
    /\ scan.pc = "returned"
    /\ scan.result.kind = "NotFound"
    /\ path.some
    /\ out' = Diagnostic(scan.result.table, path.v)
    /\ proc' = "exited1"
    /\ UNCHANGED <<files, artifact, path, debug_mode, exists, scan, files2, scan2, buildVars>>

\* run(files, target) is entered with the options set and the files, as
\* discovery found them, on disk.
Init ==
    /\ \E n \in 0..MaxFiles : files = [k \in 1..n |-> k]
    /\ path \in Queries
    /\ artifact \in [Range(files) -> Artifacts(path)]
    /\ debug_mode \in BOOLEAN
    /\ exists = Range(files)
    /\ scan = Enter(debug_mode, files)
    /\ files2 = <<>>
    /\ scan2 = Idle
    /\ proc = "running"
    /\ out = <<>>
    /\ BuildIdle

Next ==
    \/ DebugDump
    \/ ScanLoop
    \/ Vanish
    \/ RunFound
    \/ RunList
    \/ RunDiagnose

Spec == Init /\ [][Next]_vars

(***************************************************************************)
(* parse_files applied to two orders of the same files, one call after the *)
(* other in one process, the files on disk fixed from the start.           *)
(***************************************************************************)
Orders(fs) ==
    {p \in [1..Len(fs) -> Range(fs)] : \A a, b \in 1..Len(fs) : p[a] = p[b] => a = b}

DebugDumpAgain ==
    /\ proc = "running"
    /\ scan.pc = "returned"
    /\ scan2.pc = "dump"
    /\ scan2' = DumpIter(scan2, files2, exists)
    /\ proc' = Died(scan2')
    /\ UNCHANGED <<files, artifact, path, debug_mode, exists, scan, files2, out, buildVars>>

ScanLoopAgain ==
    /\ proc = "running"
    /\ scan.pc = "returned"
    /\ scan2.pc = "scan"
    /\ scan2' = LoopIter(scan2, files2, exists)
    /\ proc' = Died(scan2')
    /\ UNCHANGED <<files, artifact, path, debug_mode, exists, scan, files2, out, buildVars>>

InitPerm ==
    /\ \E n \in 0..PermFiles : files = [k \in 1..n |-> k]
    /\ path \in Queries
    /\ artifact \in [Range(files) -> Artifacts(path)]
    /\ debug_mode \in BOOLEAN
    /\ exists \in SUBSET Range(files)
    /\ files2 \in Orders(files)
    /\ scan = Enter(debug_mode, files)
    /\ scan2 = Enter(debug_mode, files2)
    /\ proc = "running"
    /\ out = <<>>
    /\ BuildIdle

NextPerm ==
    \/ DebugDump
    \/ ScanLoop
    \/ DebugDumpAgain
    \/ ScanLoopAgain

SpecPerm == InitPerm /\ [][NextPerm]_vars

(***************************************************************************)
(* Artifact discovery: build::scan_directory and the end of                *)
(* build::project, from the point where cargo build has finished.          *)
(*                                                                         *)
(* A path is the sequence of its components.  The traversal yields paths   *)
(* below the target directory; canonicalize() makes them absolute and      *)
(* resolves symbolic links.                                                *)
(***************************************************************************)
MaxEntries == 3   \* entries on disk below the two scanned directories

s_s == <<115>>                                             \* "s"
s_ll == <<108, 108>>                                       \* "ll"
s_ex == <<101, 120>>                                       \* "ex"
s_dash == <<45>>                                           \* "-"
s_abs == <<47, 119>>                                       \* "/w"
s_deps == <<100, 101, 112, 115>>                           \* "deps"
s_examples == <<101, 120, 97, 109, 112, 108, 101, 115>>    \* "examples"
s_a_s == <<97, 46, 115>>                                   \* "a.s"
s_b_ll == <<98, 46, 108, 108>>                             \* "b.ll"
s_c_s == <<99, 46, 115>>                                   \* "c.s"
s_sub == <<115, 117, 98>>                                  \* "sub"
s_d_s == <<100, 46, 115>>                                  \* "d.s"
s_e_s == <<101, 46, 115>>                                  \* "e.s"
s_dot_s == <<46, 115>>                                     \* ".s"
s_ex_1_s == <<101, 120, 45, 49, 46, 115>>                  \* "ex-1.s"
s_other_2_s == <<111, 116, 104, 101, 114, 45, 50, 46, 115>> \* "other-2.s"
s_ex_3_s == <<101, 120, 45, 51, 46, 115>>                  \* "ex-3.s"

\* target::directory("deps"), target::directory("examples")
deps_directory == <<s_deps>>
example_directory == <<s_examples>>

Entry(p, kind, target) == [path |-> p, kind |-> kind, target |-> target]

\* The two scanned directories, always on disk after a build.
Roots ==
    { Entry(deps_directory, "dir", <<>>), Entry(example_directory, "dir", <<>>) }

\* What the model may find below them: files, directories (one named like
\* an assembly file) and symbolic links to deps/a.s.
Candidates ==
    { Entry(<<s_deps, s_a_s>>, "file", <<>>),
      Entry(<<s_deps, s_b_ll>>, "file", <<>>),
      Entry(<<s_deps, s_dot_s>>, "file", <<>>),
      Entry(<<s_deps, s_c_s>>, "symlink", <<s_deps, s_a_s>>),
      Entry(<<s_deps, s_sub>>, "dir", <<>>),
      Entry(<<s_deps, s_sub, s_d_s>>, "file", <<>>),
      Entry(<<s_deps, s_e_s>>, "dir", <<>>),
      Entry(<<s_examples, s_ex_1_s>>, "file", <<>>),
      Entry(<<s_examples, s_other_2_s>>, "file", <<>>),
      Entry(<<s_examples, s_ex_3_s>>, "symlink", <<s_deps, s_a_s>>) }

Parent(p) == SubSeq(p, 1, Len(p) - 1)

Children(dir, t) == {e \in t : Len(e.path) > 1 /\ Parent(e.path) = dir.path}

Trees ==
    {Roots \cup c : c \in
        {c \in SUBSET Candidates :
            /\ Cardinality(c) <= MaxEntries
            /\ \A e \in c : \E d \in Roots \cup c : d.kind = "dir" /\ d.path = Parent(e.path)}}

\* Path::file_stem and Path::extension of the last component: the name is
\* split at its last '.', and a name with no '.' or only a leading '.' has
\* no extension.
file_name(p) == p[Len(p)]

LastDot(name) ==
    LET at == {k \in 1..Len(name) : name[k] = Dot}
    IN  IF at = {} THEN 0 ELSE CHOOSE k \in at : \A m \in at : m <= k

file_stem(p) ==
    LET name == file_name(p)
        d == LastDot(name)
    IN  IF d <= 1 THEN Some(name) ELSE Some(SubSeq(name, 1, d - 1))

extension(p) ==
    LET name == file_name(p)
        d == LastDot(name)
    IN  IF d <= 1 THEN None ELSE Some(SubSeq(name, d + 1, Len(name)))

starts_with(s, prefix) ==
    Len(prefix) <= Len(s) /\ SubSeq(s, 1, Len(prefix)) = prefix

\* The two predicates project passes to scan_directory.
deps_predicate(stem, extn) == extn = Some(ext)

example_predicate(stem, extn) ==
    LET prefix == example.v \o s_dash
        has_prefix == stem.some /\ starts_with(stem.v, prefix)
        has_extension == extn = Some(ext)
    IN  has_prefix /\ has_extension

predicate(pass, stem, extn) ==
    IF pass = "deps" THEN deps_predicate(stem, extn) ELSE example_predicate(stem, extn)

\* Ord for Path: component by component, each component as a string.
RECURSIVE PathLess(_, _)
PathLess(p, q) ==
    IF q = <<>> THEN FALSE
    ELSE IF p = <<>> THEN TRUE
    ELSE IF Head(p) # Head(q) THEN StrLess(Head(p), Head(q))
    ELSE PathLess(Tail(p), Tail(q))

RECURSIVE InsertPath(_, _)
InsertPath(sorted, x) ==
    IF sorted = <<>> THEN <<x>>
    ELSE IF PathLess(x, Head(sorted)) THEN <<x>> \o sorted
    ELSE <<Head(sorted)>> \o InsertPath(Tail(sorted), x)

RECURSIVE sort_unstable(_)
sort_unstable(v) ==
    IF v = <<>> THEN <<>>
    ELSE InsertPath(sort_unstable(SubSeq(v, 1, Len(v) - 1)), v[Len(v)])

\* Path::canonicalize: the absolute path of what p names, following a
\* symbolic link; an error when the link's target is not on disk.
OnDisk(p) == \E e \in tree : e.path = p

EntryAt(p) == CHOOSE e \in tree : e.path = p

canonicalize(p) ==
    LET e == EntryAt(p)
    IN  IF e.kind # "symlink" THEN Ok(<<s_abs>> \o p)
        ELSE IF OnDisk(e.target) THEN Ok(<<s_abs>> \o e.target)
        ELSE Err

\* finish with dedup() left out.
finish_keeps_duplicates(v) ==
    LET canonical == [k \in 1..Len(v) |-> canonicalize(v[k])]
    IN  IF windows THEN Ok(sort_unstable(v))
        ELSE IF \E k \in 1..Len(v) : ~canonical[k].ok THEN Err
        ELSE Ok(sort_unstable([k \in 1..Len(v) |-> canonical[k].v]))

\* The last lines of project: canonicalize unless on Windows, sort, dedup.
\* The result is Err when a canonicalize().unwrap() panics.
finish(v) ==
    LET canonical == [k \in 1..Len(v) |-> canonicalize(v[k])]
    IN  IF windows THEN Ok(dedup(sort_unstable(v)))
        ELSE IF \E k \in 1..Len(v) : ~canonical[k].ok THEN Err
        ELSE Ok(dedup(sort_unstable([k \in 1..Len(v) |-> canonical[k].v])))

\* WalkDir::new(root): the root is yielded first.
WalkDir(root) == << {d \in tree : d.path = root} >>

\* The iterator after it yielded e: a directory's entries come next, and
\* directories with nothing left are closed.
RECURSIVE Close(_)
Close(w) ==
    IF w # <<>> /\ w[Len(w)] = {} THEN Close(SubSeq(w, 1, Len(w) - 1)) ELSE w

Advance(w, e) ==
    LET rest == [w EXCEPT ![Len(w)] = @ \ {e}]
    IN  Close(IF e.kind = "dir" THEN Append(rest, Children(e, tree)) ELSE rest)

Scanning == bpc \in {"deps", "examples"}

\* scan_directory: the loop body on the next entry the walk yields.
ScanEntry ==
    /\ Scanning
    /\ walk # <<>>
    /\ \E e \in walk[Len(walk)] :
        /\ walk' = Advance(walk, e)
        /\ pass_files' =
               IF predicate(bpc, file_stem(e.path), extension(e.path))
               THEN Append(pass_files, e.path)
               ELSE pass_files
    /\ UNCHANGED <<tree, ext, example, windows, bpc, passes, output_files, resolveVars>>

\* scan_directory: the walk yields an error (an entry cannot be read) and
\* unwrap_or_else panics.
ScanError ==
    /\ Scanning
    /\ walk # <<>>
    /\ bpc' = "panicked"
    /\ UNCHANGED <<tree, ext, example, windows, walk, pass_files, passes, output_files,
                   resolveVars>>

\* scan_directory returns; project appends what it returned and goes on to
\* the examples directory, when an example is selected, or to the end.
ScanReturn ==
    /\ Scanning
    /\ walk = <<>>
    /\ passes' = Append(passes, [pass |-> bpc, list |-> pass_files])
    /\ output_files' = output_files \o pass_files
    /\ pass_files' = <<>>
    /\ IF bpc = "deps" /\ example.some
       THEN bpc' = "examples" /\ walk' = WalkDir(example_directory)
       ELSE bpc' = "finish" /\ walk' = walk
    /\ UNCHANGED <<tree, ext, example, windows, resolveVars>>

\* project: canonicalize, sort, dedup and return.
Finish ==
    /\ bpc = "finish"
    /\ LET r == finish(output_files)
       IN  IF r.ok
           THEN bpc' = "done" /\ output_files' = r.v
           ELSE bpc' = "panicked" /\ output_files' = output_files
    /\ UNCHANGED <<tree, ext, example, windows, walk, pass_files, passes, resolveVars>>

\* asm::run is not under way.
ResolveIdle ==
    /\ files = <<>>
    /\ artifact = <<>>
    /\ path = None
    /\ debug_mode = FALSE
    /\ exists = {}
    /\ scan = Idle
    /\ files2 = <<>>
    /\ scan2 = Idle
    /\ proc = "idle"
    /\ out = <<>>

\* project after cargo build finished: the scan of the deps directory
\* starts.
InitBuild ==
    /\ tree \in Trees
    /\ ext \in {s_s, s_ll}
    /\ example \in {None, Some(s_ex)}
    /\ windows \in BOOLEAN
    /\ bpc = "deps"
    /\ walk = << {d \in tree : d.path = deps_directory} >>
    /\ pass_files = <<>>
    /\ passes = <<>>
    /\ output_files = <<>>
    /\ ResolveIdle

NextBuild ==
    \/ ScanEntry
    \/ ScanError
    \/ ScanReturn
    \/ Finish

SpecBuild == InitBuild /\ [][NextBuild]_vars

(***************************************************************************)
(* Properties of the resolution.                                          *)
(***************************************************************************)
\* The position in fs of the first file holding the requested function, 0
\* when no file holds it.
FirstFound(fs) ==
    LET at == {k \in 1..Len(fs) : artifact[fs[k]].found}
    IN  IF at = {} THEN 0 ELSE CHOOSE k \in at : \A m \in at : k <= m

\* The trailing component of a string: its suffix after the last ':'.
Trailing(s) ==
    CHOOSE t \in {SubSeq(s, k, Len(s)) : k \in 1..(Len(s) + 1)} :
        /\ Colon \notin Range(t)
        /\ Len(t) < Len(s) => s[Len(s) - Len(t)] = Colon

\* The suggestions of the diagnostic, in the order written.
Suggestions ==
    LET IsSuggestion(l) == l.kind = "suggestion"
        ls == SelectSeq(out, IsSuggestion)
    IN  [k \in 1..Len(ls) |-> ls[k].text]

Count(kind) == Cardinality({k \in 1..Len(out) : out[k].kind = kind})

\* C1: when some file holds the function, no file after the first such file
\* is ever parsed, no file is parsed twice, and a scan that returns returns
\* Found with that first file's function and file table, every file up to
\* it parsed exactly once.
C1_ShortCircuit ==
    LET ff == FirstFound(files) IN
    ff # 0 =>
        /\ \A k \in (ff + 1)..Len(files) : scan.parsed[files[k]] = 0
        /\ \A k \in 1..ff : scan.parsed[files[k]] <= 1
        /\ scan.pc = "returned" =>
            /\ scan.result.kind = "Found"
            /\ scan.result.function = files[ff]
            /\ scan.result.files = files[ff]
            /\ \A k \in 1..ff : scan.parsed[files[k]] = 1

\* [A, B, C]: A lists functions, B and C both hold the function; the scan
\* has returned.
C1_Witness ==
    /\ Len(files) = 3
    /\ FirstFound(files) = 2
    /\ artifact[files[3]].found
    /\ scan.pc = "returned"
    /\ scan.result.function = files[2]

\* C3: a NotFound result carries a strictly ascending table whose elements
\* are exactly the identifiers the files list.
C3_Aggregation ==
    (scan.pc = "returned" /\ scan.result.kind = "NotFound") =>
        LET t == scan.result.table IN
        /\ \A k \in 1..(Len(t) - 1) : StrLess(t[k], t[k + 1])
        /\ Range(t) = UNION {Range(artifact[f].table) : f \in Range(files)}

\* No path; listings ["a::x","b::y"] and ["a::x","c::z"] give
\* ["a::x","b::y","c::z"].
C3_Witness ==
    /\ ~path.some
    /\ Len(files) = 2
    /\ artifact[files[1]].table = <<s_ax, s_by>>
    /\ artifact[files[2]].table = <<s_ax, s_cz>>
    /\ scan.pc = "returned"
    /\ scan.result = NotFound(<<s_ax, s_by, s_cz>>)

\* C4: the suggestions written are exactly the table entries whose trailing
\* component is within distance 4 of the path's, each once, ascending by
\* that distance and, at equal distance, in ascending string order.
C4_SuggestionRanking ==
    proc = "exited1" =>
        LET S == Suggestions
            D(e) == edit_distance(Trailing(e), Trailing(path.v))
        IN  /\ Range(S) = {e \in Range(scan.result.table) : D(e) <= 4}
            /\ Len(S) = Cardinality(Range(S))
            /\ \A a, b \in 1..Len(S) :
                   a < b => \/ D(S[a]) < D(S[b])
                            \/ D(S[a]) = D(S[b]) /\ StrLess(S[a], S[b])

\* "foo" against foo1, bar, completely_different: the first two, in that
\* order.
C4_Witness ==
    /\ proc = "exited1"
    /\ path = Some(s_foo)
    /\ scan.result.table = <<s_completely_different, s_m_foo1, s_n_bar>>
    /\ Suggestions = <<s_m_foo1, s_n_bar>>

C5_Scenario ==
    /\ proc = "exited1"
    /\ path = Some(s_pkg_zz)
    /\ scan.result.table = <<s_other_q, s_pkg_z, s_pkg_zzz>>

\* C5 as stated: "pkg::z" and "pkg::zzz" are suggested and "other::q" is not.
C5_Original ==
    C5_Scenario =>
        /\ s_pkg_z \in Range(Suggestions)
        /\ s_pkg_zzz \in Range(Suggestions)
        /\ s_other_q \notin Range(Suggestions)

\* C5 amended: "pkg::z" and "pkg::zzz" (distance 1) are suggested first and
\* "other::q" (distance 2, within the threshold) is suggested after them.
C5_Amended ==
    C5_Scenario => Suggestions = <<s_pkg_z, s_pkg_zzz, s_other_q>>

C5_Witness == C5_Scenario /\ Len(Suggestions) = 3

\* C8: a NotFound result never panics; with no path every table entry is
\* printed once in table order and run returns; with a path the diagnostic
\* names the path, ends with the tips, the process exits with status 1, and
\* the header is written exactly when a suggestion is.
C8_NotFoundReporting ==
    scan.result.kind = "NotFound" =>
        /\ proc # "panicked"
        /\ proc # "running" =>
            IF ~path.some
            THEN /\ proc = "returned"
                 /\ out = [k \in 1..Len(scan.result.table) |->
                               Line("println", scan.result.table[k])]
            ELSE /\ proc = "exited1"
                 /\ Len(out) >= 2
                 /\ out[1] = Line("could not find function at path", path.v)
                 /\ out[Len(out)] = Line("Tips", <<>>)
                 /\ Count("could not find function at path") = 1
                 /\ Count("Tips") = 1
                 /\ Count("println") = 0
                 /\ LET near == {e \in Range(scan.result.table) :
                                    edit_distance(Trailing(e), Trailing(path.v))
                                        <= SuggestThreshold}
                    IN  IF near = {}
                        THEN Len(out) = 2
                        ELSE /\ out[2] = Line("Is it one of the following functions?", <<>>)
                             /\ Count("Is it one of the following functions?") = 1
                             /\ Count("suggestion") = Len(out) - 3
                             /\ Count("suggestion") > 0

\* A path, a table that is not empty, and no entry near enough: the
\* diagnostic is the path and the tips.
C8_Witness ==
    /\ proc = "exited1"
    /\ scan.result.table # <<>>
    /\ Len(out) = 2

\* C9: a step of the scan that finds its next file missing panics, with no
\* result, no file parsed by it and nothing written; and nothing happens
\* after a panic.
C9_VanishedFatal ==
    [][/\ proc # "panicked"
       /\ (/\ scan.pc = "scan"
           /\ scan.i <= Len(files)
           /\ files[scan.i] \notin exists
           /\ scan' # scan)
          => /\ scan'.pc = "panicked"
             /\ proc' = "panicked"
             /\ scan'.result = NoResult
             /\ scan'.parsed = scan.parsed
             /\ scan'.i = scan.i
             /\ out' = out]_vars

\* The second of three files vanished after the first was scanned into the
\* table.
C9_Witness ==
    /\ proc = "panicked"
    /\ scan.pc = "panicked"
    /\ ~debug_mode
    /\ Len(files) = 3
    /\ scan.i = 2
    /\ scan.function_table # <<>>
    /\ scan.result = NoResult
    /\ scan.parsed[files[2]] = 0
    /\ scan.parsed[files[3]] = 0

\* C10: outside debug mode a panic is at a missing file before which every
\* file was parsed and listed functions only, and a scan that ended with
\* every file up to the first match on disk returned Found; an empty list
\* gives NotFound with an empty table.
C10_LazyExistence ==
    /\ ~debug_mode =>
        /\ scan.pc = "panicked" =>
            /\ scan.i \in 1..Len(files)
            /\ files[scan.i] \notin exists
            /\ \A k \in 1..(scan.i - 1) :
                   /\ ~artifact[files[k]].found
                   /\ scan.parsed[files[k]] = 1
        /\ LET ff == FirstFound(files) IN
           (/\ ff # 0
            /\ ~Running(scan)
            /\ \A k \in 1..ff : files[k] \in exists)
           => scan.pc = "returned" /\ scan.result.kind = "Found"
    /\ (files = <<>> /\ ~Running(scan)) =>
        /\ scan.pc = "returned"
        /\ scan.result = NotFound(<<>>)
        /\ DOMAIN scan.parsed = {}

\* The file after the first match is gone and the scan returned the match.
C10_Witness ==
    /\ ~debug_mode
    /\ scan.pc = "returned"
    /\ scan.result.kind = "Found"
    /\ \E k \in (FirstFound(files) + 1)..Len(files) : files[k] \notin exists

\* C2: two scans of the same files in two orders that both return return
\* the same variant and, when it is NotFound, the same table.
C2_OrderIndependent ==
    (scan.pc = "returned" /\ scan2.pc = "returned") =>
        /\ scan.result.kind = scan2.result.kind
        /\ scan.result.kind = "NotFound" => scan.result.table = scan2.result.table

\* Two files with different listings scanned in both orders.
C2_Witness ==
    /\ scan.pc = "returned"
    /\ scan2.pc = "returned"
    /\ Len(files) = 2
    /\ files2 = <<files[2], files[1]>>
    /\ scan.result.kind = "NotFound"
    /\ artifact[files[1]].table \o artifact[files[2]].table
           # artifact[files[2]].table \o artifact[files[1]].table
    /\ scan.result.table = scan2.result.table

(***************************************************************************)
(* Properties of the discovery.                                            *)
(***************************************************************************)
RootOf(pass) == IF pass = "deps" THEN deps_directory ELSE example_directory

Under(root) ==
    {e \in tree : Len(e.path) > Len(root) /\ SubSeq(e.path, 1, Len(root)) = root}

\* Not a directory: a file, or a symbolic link, which the walk does not
\* follow.
RegularFile(e) == e.kind # "dir"

\* C6 as stated: a scan_directory call returns exactly the regular files
\* under its root whose stem and extension satisfy its predicate, each once.
C6_Original ==
    \A k \in 1..Len(passes) :
        LET r == passes[k]
            wanted == {e.path : e \in
                          {e \in Under(RootOf(r.pass)) :
                              /\ RegularFile(e)
                              /\ predicate(r.pass, file_stem(e.path), extension(e.path))}}
        IN  /\ Range(r.list) = wanted
            /\ Len(r.list) = Cardinality(wanted)

\* The paths the scan_directory calls returned.
Traversed == UNION {Range(passes[k].list) : k \in 1..Len(passes)}

\* The file a listed path names: a canonical path names itself.
FileOf(p) ==
    IF Head(p) = s_abs THEN p
    ELSE IF canonicalize(p).ok THEN canonicalize(p).v
    ELSE <<s_abs>> \o p

Ascending(v) == \A k \in 1..(Len(v) - 1) : PathLess(v[k], v[k + 1])

\* C7 as stated: the final list is strictly ascending and no two of its
\* paths name the same file.
C7_Original ==
    bpc = "done" =>
        /\ Ascending(output_files)
        /\ \A a, b \in 1..Len(output_files) :
               a # b => FileOf(output_files[a]) # FileOf(output_files[b])

\* C7 amended: the final list is strictly ascending; off Windows it holds
\* the canonical paths of the traversed paths, so that no two of its paths
\* name the same file; on Windows it holds the traversed paths themselves.
C7_Amended ==
    bpc = "done" =>
        /\ Ascending(output_files)
        /\ IF windows
           THEN Range(output_files) = Traversed
           ELSE /\ Range(output_files) = {canonicalize(p).v : p \in Traversed}
                /\ \A a, b \in 1..Len(output_files) :
                       a # b => FileOf(output_files[a]) # FileOf(output_files[b])

\* deps/a.s from the deps scan and the link examples/ex-3.s to it from the
\* examples scan end as one path.
C7_Witness ==
    /\ bpc = "done"
    /\ ~windows
    /\ Len(passes) = 2
    /\ <<s_deps, s_a_s>> \in Range(passes[1].list)
    /\ <<s_examples, s_ex_3_s>> \in Range(passes[2].list)
    /\ output_files = << <<s_abs, s_deps, s_a_s>> >>

====
